---- MODULE Spec2Model ----
(***************************************************************************)
(* langgraph_swarm: the handoff tool factory (handoff.py) and the swarm    *)
(* builder with its active-agent router (swarm.py).                        *)
(*                                                                         *)
(* Strings are sequences of one-character strings.  Python's None is the   *)
(* empty tuple and a present value x is the one-element tuple <<x>>.       *)
(* A dict is a function from its keys.                                     *)
(***************************************************************************)
EXTENDS Integers, Sequences, FiniteSets, TLC

VARIABLES created, call, state, handoffs, agents, builder, outcome, lookup

vars == <<created, call, state, handoffs, agents, builder, outcome, lookup>>

Range(f) == {f[i] : i \in DOMAIN f}

None == <<>>
Some(x) == <<x>>
Get(o) == o[1]

(***************************************************************************)
(* Bounds of the model.                                                    *)
(***************************************************************************)
MaxNameLen == 4
MaxInitLog == 1
MaxHandoffs == 2
MaxTools == 2
MaxAgents == 2

(***************************************************************************)
(* Characters.  "U2102" stands for the one character U+2102 (DOUBLE-STRUCK *)
(* CAPITAL C): an uppercase letter (str.isupper() is true) for which       *)
(* str.lower() has no lowercase mapping, as for 548 other code points.     *)
(***************************************************************************)
Whitespace == {" ", "\t"}
UpperChars == {"A", "U2102"}
Alphabet == {"a", "A", "U2102"} \cup Whitespace

IsSpace(c) == c \in Whitespace
IsUpper(c) == c \in UpperChars

\* str.lower() on one character
LowerChar(c) == IF c = "A" THEN "a" ELSE c

\* str.lower()
Lower(s) == [i \in 1..Len(s) |-> LowerChar(s[i])]

RECURSIVE LStrip(_)
LStrip(s) == IF s = <<>> \/ ~IsSpace(Head(s)) THEN s ELSE LStrip(Tail(s))

RECURSIVE RStrip(_)
RStrip(s) ==
    IF s = <<>> \/ ~IsSpace(s[Len(s)]) THEN s ELSE RStrip(SubSeq(s, 1, Len(s) - 1))

\* str.strip()
Strip(s) == RStrip(LStrip(s))

\* WHITESPACE_RE.sub(repl, s) with WHITESPACE_RE = re.compile(r"\s+"):
\* every leftmost-longest match of \s+ is replaced by repl
RECURSIVE WhitespaceSub(_, _)
WhitespaceSub(repl, s) ==
    IF s = <<>> THEN <<>>
    ELSE IF IsSpace(Head(s)) THEN repl \o WhitespaceSub(repl, LStrip(s))
    ELSE <<Head(s)>> \o WhitespaceSub(repl, Tail(s))

\* a slip: the argument is not stripped before the substitution
NormalizeUnstripped(agent_name) == Lower(WhitespaceSub(<<"_">>, agent_name))

_normalize_agent_name(agent_name) ==
    Lower(WhitespaceSub(<<"_">>, Strip(agent_name)))

METADATA_KEY_HANDOFF_DESTINATION == "__handoff_destination"
PARENT == "__parent__"
TransferPrefix == <<"t", "r", "a", "n", "s", "f", "e", "r", "_", "t", "o", "_">>

\* the default description, f"... '{agent_name}' ..."
DefaultDescription(agent_name) == <<"ask agent '">> \o agent_name \o <<"' for help">>

\* create_handoff_tool(agent_name=..., description=...): the tool object, whose
\* function closes over agent_name and name
create_handoff_tool(agent_name, description) ==
    [ name |-> TransferPrefix \o _normalize_agent_name(agent_name),
      description |-> IF description = None THEN DefaultDescription(agent_name)
                      ELSE Get(description),
      agent_name |-> agent_name,
      metadata |-> Some(METADATA_KEY_HANDOFF_DESTINATION :> agent_name) ]

\* ToolMessage(content=f"... {agent_name}", name=name, tool_call_id=tool_call_id)
ToolMessage(tool, tool_call_id) ==
    [ type |-> "tool",
      content |-> <<"handed off to agent ">> \o tool.agent_name,
      name |-> tool.name,
      tool_call_id |-> tool_call_id ]

\* a slip: the transfer targets the normalized name the tool is named after
HandoffToNormalized(tool, st, tool_call_id) ==
    [ goto |-> _normalize_agent_name(tool.agent_name),
      graph |-> PARENT,
      update |-> [ messages |-> st.messages \o <<ToolMessage(tool, tool_call_id)>>,
                   active_agent |-> _normalize_agent_name(tool.agent_name) ] ]

\* a slip: the update carries only the new message, not the log it extends
HandoffDroppingLog(tool, st, tool_call_id) ==
    [ goto |-> tool.agent_name,
      graph |-> PARENT,
      update |-> [ messages |-> <<ToolMessage(tool, tool_call_id)>>,
                   active_agent |-> tool.agent_name ] ]

\* handoff_to_agent(state, tool_call_id): the Command the tool returns
handoff_to_agent(tool, st, tool_call_id) ==
    [ goto |-> tool.agent_name,
      graph |-> PARENT,
      update |-> [ messages |-> st.messages \o <<ToolMessage(tool, tool_call_id)>>,
                   active_agent |-> tool.agent_name ] ]

\* The graph applies a Command's update to its state: each key of the update is
\* written, the other keys are kept.  (The update's message list extends the
\* log it was computed from, so the written log is the update's list.)
ApplyUpdate(st, update) ==
    [k \in DOMAIN st \cup DOMAIN update |->
        IF k \in DOMAIN update THEN update[k] ELSE st[k]]

(***************************************************************************)
(* Inputs.                                                                 *)
(***************************************************************************)
RECURSIVE SeqsUpTo(_, _)
SeqsUpTo(S, n) ==
    IF n = 0 THEN {<<>>}
    ELSE LET shorter == SeqsUpTo(S, n - 1)
         IN  shorter \cup {Append(s, x) : s \in shorter, x \in S}

Names == SeqsUpTo(Alphabet, MaxNameLen)
Descriptions == {None, Some(<<"custom description">>)}
ToolCallIds == {"call_1", "call_2"}
HumanMessage == [type |-> "human", content |-> <<"hi">>]
InitLogs == SeqsUpTo({HumanMessage}, MaxInitLog)

\* the agent names used for swarms: "a" and "A" differ only by case
NamePool == {<<"a">>, <<"A">>, <<"b">>}

\* a graph state before any handoff: a message log, and possibly an active agent
\* written earlier
InputStates ==
    {[messages |-> log] : log \in InitLogs}
    \cup {[messages |-> log, active_agent |-> <<"b">>] : log \in InitLogs}

(***************************************************************************)
(* A tool is created once and then invoked repeatedly on the graph state.  *)
(***************************************************************************)
InitTool ==
    /\ created = None
    /\ call = None
    /\ state \in InputStates
    /\ handoffs = 0
    /\ agents = <<>>
    /\ builder = None
    /\ outcome = None
    /\ lookup = None

CreateHandoffTool ==
    /\ created = None
    /\ \E agent_name \in Names, description \in Descriptions :
          created' = Some([ agent_name |-> agent_name,
                            description |-> description,
                            tool |-> create_handoff_tool(agent_name, description) ])
    /\ UNCHANGED <<call, state, handoffs, agents, builder, outcome, lookup>>

InvokeHandoffTool ==
    /\ created # None
    /\ handoffs < MaxHandoffs
    /\ \E tool_call_id \in ToolCallIds :
          LET command == handoff_to_agent(Get(created).tool, state, tool_call_id)
          IN  /\ call' = Some([ tool |-> Get(created).tool,
                                state |-> state,
                                tool_call_id |-> tool_call_id,
                                log0 |-> IF call = None THEN state.messages
                                         ELSE Get(call).log0,
                                result |-> command ])
              /\ state' = ApplyUpdate(state, command.update)
    /\ handoffs' = handoffs + 1
    /\ UNCHANGED <<created, agents, builder, outcome, lookup>>

NextTool == CreateHandoffTool \/ InvokeHandoffTool

SpecTool == InitTool /\ [][NextTool]_vars

(***************************************************************************)
(* Compiled agents and their tool nodes.                                   *)
(*                                                                         *)
(* An agent is a compiled graph: a name and its nodes, each node with its  *)
(* data.  A ToolNode keeps the tools it was given in a dict keyed by tool  *)
(* name (tools_by_name), filled in the order given: a later tool of the    *)
(* same name takes the earlier one's place.  A dict is kept as the         *)
(* sequence of its values in insertion order.                              *)
(***************************************************************************)
\* tools_by_name[tool.name] = tool
DictPut(dict, tool) ==
    IF \E i \in 1..Len(dict) : dict[i].name = tool.name
    THEN [i \in 1..Len(dict) |-> IF dict[i].name = tool.name THEN tool ELSE dict[i]]
    ELSE Append(dict, tool)

RECURSIVE ToolsByName(_)
ToolsByName(tools) ==
    IF tools = <<>> THEN <<>>
    ELSE DictPut(ToolsByName(SubSeq(tools, 1, Len(tools) - 1)), tools[Len(tools)])

ToolNode(tools) == [kind |-> "ToolNode", tools_by_name |-> ToolsByName(tools)]
OtherNode == [kind |-> "Runnable", tools_by_name |-> <<>>]

\* tool.metadata is not None and METADATA_KEY_HANDOFF_DESTINATION in tool.metadata
HasDestination(tool) ==
    /\ tool.metadata # None
    /\ METADATA_KEY_HANDOFF_DESTINATION \in DOMAIN Get(tool.metadata)

RECURSIVE DestinationsOf(_)
DestinationsOf(tools) ==
    IF tools = <<>> THEN <<>>
    ELSE (IF HasDestination(Head(tools))
          THEN <<Get(Head(tools).metadata)[METADATA_KEY_HANDOFF_DESTINATION]>>
          ELSE <<>>) \o DestinationsOf(Tail(tools))

\* a slip: the tool's name is read instead of the destination in its metadata
RECURSIVE ToolNamesOf(_)
ToolNamesOf(tools) ==
    IF tools = <<>> THEN <<>>
    ELSE (IF HasDestination(Head(tools)) THEN <<Head(tools).name>> ELSE <<>>)
         \o ToolNamesOf(Tail(tools))

DestinationsByToolName(agent, tool_node_name) ==
    IF tool_node_name \notin DOMAIN agent.nodes THEN <<>>
    ELSE IF agent.nodes[tool_node_name].kind # "ToolNode" THEN <<>>
    ELSE ToolNamesOf(agent.nodes[tool_node_name].tools_by_name)

get_handoff_destinations(agent, tool_node_name) ==
    IF tool_node_name \notin DOMAIN agent.nodes THEN <<>>
    ELSE LET tool_node == agent.nodes[tool_node_name]
         IN  IF tool_node.kind # "ToolNode" THEN <<>>
             ELSE DestinationsOf(tool_node.tools_by_name)

\* tools that are no handoff tools: one without metadata, one whose metadata
\* lacks the destination key
PlainTools ==
    { [name |-> <<"s">>, description |-> <<"search">>, metadata |-> None],
      [name |-> <<"c">>, description |-> <<"calc">>, metadata |-> Some("tag" :> <<"x">>)] }

HandoffTools == {create_handoff_tool(n, None) : n \in NamePool}

ToolLists == SeqsUpTo(HandoffTools \cup PlainTools, MaxTools)
NodeNames == {"tools", "actions"}

\* the agents under test: the tools sit in a ToolNode under either node name, or
\* that node is no ToolNode, or the agent has no such node
Agents ==
    {[name |-> <<"a">>, given |-> tools,
      nodes |-> ("agent" :> OtherNode) @@ (n :> ToolNode(tools))] :
        tools \in ToolLists, n \in NodeNames}
    \cup {[name |-> <<"a">>, given |-> tools, nodes |-> ("agent" :> OtherNode) @@ (n :> OtherNode)] :
            tools \in ToolLists, n \in NodeNames}
    \cup {[name |-> <<"a">>, given |-> <<>>, nodes |-> ("agent" :> OtherNode)]}

(***************************************************************************)
(* An agent is compiled and its handoff destinations are looked up.        *)
(***************************************************************************)
InitDest ==
    /\ created = None
    /\ call = None
    /\ state = [messages |-> <<>>]
    /\ handoffs = 0
    /\ agents = <<>>
    /\ builder = None
    /\ outcome = None
    /\ lookup = None

CompileAgent ==
    /\ agents = <<>>
    /\ \E agent \in Agents : agents' = <<agent>>
    /\ UNCHANGED <<created, call, state, handoffs, builder, outcome, lookup>>

GetHandoffDestinations ==
    /\ agents # <<>>
    /\ lookup = None
    /\ \E tool_node_name \in NodeNames :
          lookup' = Some([ tool_node_name |-> tool_node_name,
                           result |-> get_handoff_destinations(agents[1], tool_node_name) ])
    /\ UNCHANGED <<created, call, state, handoffs, agents, builder, outcome>>

NextDest == CompileAgent \/ GetHandoffDestinations

SpecDest == InitDest /\ [][NextDest]_vars

(***************************************************************************)
(* State schemas and the graph builder.                                    *)
(*                                                                         *)
(* A state schema is a class: the fields it declares itself (own) and the  *)
(* fields it inherits.  The class object's __annotations__ holds the       *)
(* inherited fields too when the class is a TypedDict (the TypedDict       *)
(* metaclass merges its bases' annotations), and only the class's own      *)
(* fields otherwise (a dataclass, a pydantic model).  The builder's        *)
(* channels are read from the class's type hints, which follow the bases   *)
(* for every kind of class.                                                *)
(***************************************************************************)
Fields == {"messages", "active_agent"}

Schemas ==
    {s \in [kind : {"TypedDict", "Class"}, own : SUBSET Fields, inherited : SUBSET Fields] :
        /\ s.own \cap s.inherited = {}
        /\ "messages" \in s.own \cup s.inherited}

\* class SwarmState(MessagesState): active_agent: str
SwarmState == [kind |-> "TypedDict", own |-> {"active_agent"}, inherited |-> {"messages"}]

\* state_schema.__annotations__
Annotations(schema) ==
    IF schema.kind = "TypedDict" THEN schema.own \cup schema.inherited ELSE schema.own

\* builder.schemas[builder.schema]
Channels(schema) == schema.own \cup schema.inherited

\* StateGraph(state_schema)
StateGraph(state_schema) == [schema |-> state_schema, branches |-> <<>>, nodes |-> <<>>]

START == "__start__"

Returned(b) == [builder |-> b, raised |-> "", where |-> ""]
Raised(b, where) == [builder |-> b, raised |-> "ValueError", where |-> where]

\* a slip: the default agent is not checked against the route list
RouterWithoutDefaultCheck(b, route_to, default_active_agent) ==
    IF "active_agent" \notin Channels(Get(b).schema)
    THEN Raised(b, "builder lacks active_agent")
    ELSE Returned(Some([Get(b) EXCEPT !.branches =
             Append(@, [ source |-> START,
                         default_active_agent |-> default_active_agent,
                         path_map |-> route_to ])]))

\* a slip: the default agent is checked before the schema
RouterDefaultCheckedFirst(b, route_to, default_active_agent) ==
    IF default_active_agent \notin Range(route_to)
    THEN Raised(b, "default not in route_to")
    ELSE IF "active_agent" \notin Channels(Get(b).schema)
    THEN Raised(b, "builder lacks active_agent")
    ELSE Returned(Some([Get(b) EXCEPT !.branches =
             Append(@, [ source |-> START,
                         default_active_agent |-> default_active_agent,
                         path_map |-> route_to ])]))

\* add_active_agent_router(builder, route_to=..., default_active_agent=...): the
\* builder as the call leaves it, and the error raised if any.  The installed
\* branch keeps the router function's default_active_agent.
add_active_agent_router(b, route_to, default_active_agent) ==
    IF "active_agent" \notin Channels(Get(b).schema)
    THEN Raised(b, "builder lacks active_agent")
    ELSE IF default_active_agent \notin Range(route_to)
    THEN Raised(b, "default not in route_to")
    ELSE Returned(Some([Get(b) EXCEPT !.branches =
             Append(@, [ source |-> START,
                         default_active_agent |-> default_active_agent,
                         path_map |-> route_to ])]))

\* a slip: the router always dispatches to the default agent
RouteToDefault(st, default_active_agent) == default_active_agent

\* route_to_active_agent(state): state.get("active_agent", default_active_agent)
route_to_active_agent(st, default_active_agent) ==
    IF "active_agent" \in DOMAIN st THEN st.active_agent ELSE default_active_agent

\* builder.add_node(name, agent, destinations=...): StateGraph refuses a name
\* that is already a node's
add_node(b, name, destinations) ==
    IF \E i \in 1..Len(Get(b).nodes) : Get(b).nodes[i].name = name
    THEN Raised(b, "node already present")
    ELSE Returned(Some([Get(b) EXCEPT !.nodes =
             Append(@, [name |-> name, destinations |-> destinations])]))

\* for agent in agents: builder.add_node(agent.name, agent, destinations=...)
RECURSIVE AddAgentNodes(_, _)
AddAgentNodes(b, agentList) ==
    IF agentList = <<>> THEN Returned(b)
    ELSE LET added == add_node(b, Head(agentList).name,
                               get_handoff_destinations(Head(agentList), "tools"))
         IN  IF added.raised # "" THEN added
             ELSE AddAgentNodes(added.builder, Tail(agentList))

AgentNames(agentList) == [i \in 1..Len(agentList) |-> agentList[i].name]

\* a slip: the agents' nodes are added before the router is validated
SwarmNodesFirst(agentList, default_active_agent, state_schema) ==
    IF "active_agent" \notin Annotations(state_schema)
    THEN Raised(None, "state_schema lacks active_agent")
    ELSE LET added == AddAgentNodes(Some(StateGraph(state_schema)), agentList)
         IN  IF added.raised # "" THEN added
             ELSE add_active_agent_router(added.builder, AgentNames(agentList),
                                          default_active_agent)

create_swarm(agentList, default_active_agent, state_schema) ==
    IF "active_agent" \notin Annotations(state_schema)
    THEN Raised(None, "state_schema lacks active_agent")
    ELSE LET routed == add_active_agent_router(Some(StateGraph(state_schema)),
                                               AgentNames(agentList),
                                               default_active_agent)
         IN  IF routed.raised # "" THEN routed
             ELSE AddAgentNodes(routed.builder, agentList)

(***************************************************************************)
(* A swarm is built from compiled agents and run: the active agent hands   *)
(* off with one of the handoff tools in its tool nodes, and the graph      *)
(* applies the returned update to the shared state.                        *)
(***************************************************************************)
\* the agents of a swarm: named from NamePool, with at most one handoff tool in
\* the node "tools"
SwarmAgents ==
    {[name |-> n, given |-> tools,
      nodes |-> ("agent" :> OtherNode) @@ ("tools" :> ToolNode(tools))] :
        n \in NamePool, tools \in {<<>>} \cup {<<t>> : t \in HandoffTools}}

Init ==
    /\ created = None
    /\ call = None
    /\ state \in {[messages |-> log] : log \in InitLogs}
    /\ handoffs = 0
    /\ agents = <<>>
    /\ builder = None
    /\ outcome = None
    /\ lookup = None

CompileSwarmAgent ==
    /\ outcome = None
    /\ Len(agents) < MaxAgents
    /\ \E agent \in SwarmAgents : agents' = Append(agents, agent)
    /\ UNCHANGED <<created, call, state, handoffs, builder, outcome, lookup>>

CreateSwarm ==
    /\ outcome = None
    /\ \E default_active_agent \in NamePool, state_schema \in Schemas :
          LET r == create_swarm(agents, default_active_agent, state_schema)
          IN  /\ builder' = r.builder
              /\ outcome' = Some([ call |-> "create_swarm",
                                   state_schema |-> state_schema,
                                   route_to |-> AgentNames(agents),
                                   default_active_agent |-> default_active_agent,
                                   raised |-> r.raised,
                                   where |-> r.where ])
    /\ UNCHANGED <<created, call, state, handoffs, agents, lookup>>

\* add_active_agent_router called on a builder of the caller's own
AddActiveAgentRouter ==
    /\ outcome = None
    /\ agents = <<>>
    /\ \E route_to \in SeqsUpTo(NamePool, MaxAgents), default_active_agent \in NamePool,
          state_schema \in Schemas :
          LET r == add_active_agent_router(Some(StateGraph(state_schema)), route_to,
                                           default_active_agent)
          IN  /\ builder' = r.builder
              /\ outcome' = Some([ call |-> "add_active_agent_router",
                                   state_schema |-> state_schema,
                                   route_to |-> route_to,
                                   default_active_agent |-> default_active_agent,
                                   raised |-> r.raised,
                                   where |-> r.where ])
    /\ UNCHANGED <<created, call, state, handoffs, agents, lookup>>

\* create_swarm returned the builder
SwarmBuilt ==
    /\ outcome # None
    /\ Get(outcome).call = "create_swarm"
    /\ Get(outcome).raised = ""

\* what the entry edge's router returns on the shared state
Dispatched ==
    route_to_active_agent(state, Get(builder).branches[1].default_active_agent)

\* the handoff tools in the agent's tool nodes
HeldHandoffTools(agent) ==
    {tool \in UNION {Range(agent.nodes[n].tools_by_name) : n \in DOMAIN agent.nodes} :
        "agent_name" \in DOMAIN tool}

AgentHandoff ==
    /\ SwarmBuilt
    /\ handoffs < MaxHandoffs
    /\ \E i \in 1..Len(agents) :
          /\ agents[i].name = Dispatched
          /\ \E tool \in HeldHandoffTools(agents[i]), tool_call_id \in ToolCallIds :
                LET command == handoff_to_agent(tool, state, tool_call_id)
                IN  /\ call' = Some([ tool |-> tool,
                                      state |-> state,
                                      tool_call_id |-> tool_call_id,
                                      log0 |-> IF call = None THEN state.messages
                                               ELSE Get(call).log0,
                                      result |-> command ])
                    /\ state' = ApplyUpdate(state, command.update)
    /\ handoffs' = handoffs + 1
    /\ UNCHANGED <<created, agents, builder, outcome, lookup>>

Next == CompileSwarmAgent \/ CreateSwarm \/ AddActiveAgentRouter \/ AgentHandoff

Spec == Init /\ [][Next]_vars

(***************************************************************************)
(* Claims about the handoff tool, checked under SpecTool.                  *)
(***************************************************************************)

\* C1: every invocation of the tool built by create_handoff_tool(agent_name=A)
\* returns a transfer whose goto is A as given (not the normalized name), addressed
\* to the parent graph, and whose update sets active_agent to A.
C1_TransferTargetsGivenAgent ==
    call # None =>
        LET command == Get(call).result
            A == Get(created).agent_name
        IN  /\ command.goto = A
            /\ command.graph = PARENT
            /\ command.update.active_agent = A

\* the tool of a name that normalization changes was invoked on a state whose
\* active agent was another one
C1_Witness ==
    /\ call # None
    /\ _normalize_agent_name(Get(created).agent_name) # Get(created).agent_name
    /\ "active_agent" \in DOMAIN Get(call).state
    /\ Get(call).state.active_agent # Get(created).agent_name

\* C2: the update's message list is the injected state's list, unchanged and in
\* order, followed by one tool message carrying the invocation's tool_call_id and
\* the tool's name; after n successive handoffs the log is n entries longer than
\* at the start.
C2_AppendsExactlyOneMessage ==
    /\ call = None => handoffs = 0
    /\ call # None =>
        LET injected == Get(call).state.messages
            messages == Get(call).result.update.messages
            last == messages[Len(messages)]
        IN  /\ Len(messages) = Len(injected) + 1
            /\ SubSeq(messages, 1, Len(injected)) = injected
            /\ last.type = "tool"
            /\ last.tool_call_id = Get(call).tool_call_id
            /\ last.name = Get(created).tool.name
            /\ Len(state.messages) = Len(Get(call).log0) + handoffs
            /\ SubSeq(state.messages, 1, Len(Get(call).log0)) = Get(call).log0

\* two handoffs in a row on a log that was not empty
C2_Witness ==
    /\ call # None
    /\ handoffs = 2
    /\ Get(call).log0 # <<>>
    /\ Len(state.messages) = Len(Get(call).log0) + 2

\* The name the claim describes, by position: of the characters between the first
\* and the last non-whitespace character, every non-whitespace character
\* (lowercased) and one underscore for the first character of each whitespace run.
ExpectedNormalized(s) ==
    LET nonspace == {k \in 1..Len(s) : ~IsSpace(s[k])}
    IN  IF nonspace = {} THEN <<>>
        ELSE LET first == CHOOSE k \in nonspace : \A j \in nonspace : k <= j
                 last == CHOOSE k \in nonspace : \A j \in nonspace : j <= k
                 keep == {k \in first..last : ~IsSpace(s[k]) \/ ~IsSpace(s[k - 1])}
                 Nth(i) == CHOOSE k \in keep : Cardinality({j \in keep : j <= k}) = i
             IN  [i \in 1..Cardinality(keep) |->
                     IF IsSpace(s[Nth(i)]) THEN "_" ELSE LowerChar(s[Nth(i)])]

\* C3 (as amended): the tool is named 'transfer_to_' followed by the agent name
\* with leading and trailing whitespace removed, every maximal run of whitespace
\* replaced by one underscore and every character lowercased; the name holds no
\* whitespace and no character that lowercasing would change.
C3_ToolNameNormalized ==
    created # None =>
        LET name == Get(created).tool.name
        IN  /\ name = TransferPrefix \o ExpectedNormalized(Get(created).agent_name)
            /\ \A i \in 1..Len(name) : ~IsSpace(name[i]) /\ LowerChar(name[i]) = name[i]

\* a name with an uppercase letter, a run of two whitespace characters inside and
\* whitespace at an end
C3_Witness ==
    /\ created # None
    /\ LET s == Get(created).agent_name
       IN  /\ \E i \in 1..Len(s) : s[i] = "A"
           /\ \E i \in 2..(Len(s) - 2) :
                 ~IsSpace(s[i - 1]) /\ IsSpace(s[i]) /\ IsSpace(s[i + 1]) /\ ~IsSpace(s[i + 2])
    /\ Get(created).tool.name = TransferPrefix \o <<"a", "_", "a">>

\* C3 (as stated): ... so the result contains no whitespace and no uppercase letter.
C3_NoUppercaseLetter ==
    created # None =>
        LET name == Get(created).tool.name
        IN  /\ name = TransferPrefix \o ExpectedNormalized(Get(created).agent_name)
            /\ \A i \in 1..Len(name) : ~IsSpace(name[i]) /\ ~IsUpper(name[i])

(***************************************************************************)
(* Claims about get_handoff_destinations, checked under SpecDest.          *)
(***************************************************************************)
\* the tool node that was looked up held the tools the agent was given
LookedUpToolNode ==
    /\ lookup # None
    /\ Get(lookup).tool_node_name \in DOMAIN agents[1].nodes
    /\ agents[1].nodes[Get(lookup).tool_node_name].kind = "ToolNode"

\* the handoff tools among the given ones, by position
GivenHandoffs == {i \in 1..Len(agents[1].given) : "agent_name" \in DOMAIN agents[1].given[i]}

\* the handoff tools were created for distinct agent names
DistinctDestinations ==
    \A i, j \in GivenHandoffs :
        agents[1].given[i].agent_name = agents[1].given[j].agent_name => i = j

\* no two of the given tools bear the same tool name
DistinctToolNames ==
    \A i, j \in 1..Len(agents[1].given) :
        agents[1].given[i].name = agents[1].given[j].name => i = j

\* the given handoff tools' agent names, in the order given
RECURSIVE GivenNames(_)
GivenNames(i) ==
    IF i > Len(agents[1].given) THEN <<>>
    ELSE (IF i \in GivenHandoffs THEN <<agents[1].given[i].agent_name>> ELSE <<>>)
         \o GivenNames(i + 1)

\* C9 (as amended): when no two tools given to the looked-up tool node bear the
\* same tool name, the result is exactly the agent names the handoff tools were
\* created for, as given and in the order given; in general it holds the agent
\* name of every handoff tool that no later tool of the same tool name replaced,
\* and nothing else; it is empty when the agent has no node of that name or the
\* node is no tool node.
C9_DestinationsRecovered ==
    lookup # None =>
        LET result == Get(lookup).result
            given == agents[1].given
        IN  /\ ~LookedUpToolNode => result = <<>>
            /\ LookedUpToolNode =>
                /\ Range(result) =
                     {given[i].agent_name : i \in
                        {k \in GivenHandoffs :
                            \A j \in (k + 1)..Len(given) : given[j].name # given[k].name}}
                /\ DistinctToolNames => result = GivenNames(1)

\* a tool that is no handoff tool and the handoff tool of an agent name that is
\* not its own normalized form were given: the result is that name alone
C9_Witness ==
    /\ LookedUpToolNode
    /\ DistinctToolNames
    /\ Len(Get(lookup).result) = 1
    /\ Len(agents[1].given) = 2
    /\ Get(lookup).result = <<(<<"A">>)>>

\* C9 (as stated): for handoff tools created for the distinct agent names D plus
\* any non-handoff tools, the result is exactly the names in D.
C9_ExactlyTheGivenNames ==
    (LookedUpToolNode /\ DistinctDestinations) =>
        /\ Range(Get(lookup).result) = {agents[1].given[i].agent_name : i \in GivenHandoffs}
        /\ Len(Get(lookup).result) = Cardinality(GivenHandoffs)

(***************************************************************************)
(* Claims about the swarm builder and the router, checked under Spec.      *)
(***************************************************************************)
ValidationFailures ==
    {"state_schema lacks active_agent", "builder lacks active_agent", "default not in route_to"}

\* C4: add_active_agent_router, and create_swarm (whose route list is the agents'
\* names, the empty list included), raises ValueError whenever
\* default_active_agent is not in route_to, and then no conditional entry edge
\* has been installed on the builder.
C4_DefaultOutsideRouteListRaises ==
    (outcome # None /\ Get(outcome).default_active_agent \notin Range(Get(outcome).route_to)) =>
        /\ Get(outcome).raised = "ValueError"
        /\ builder # None => Get(builder).branches = <<>>

\* create_swarm was given two agents and the default schema, and a default that
\* names neither agent
C4_Witness ==
    /\ outcome # None
    /\ Get(outcome).call = "create_swarm"
    /\ Len(agents) = 2
    /\ Get(outcome).state_schema = SwarmState
    /\ Get(outcome).default_active_agent \notin Range(Get(outcome).route_to)
    /\ Get(outcome).where = "default not in route_to"

\* C5: add_active_agent_router raises ValueError whenever the builder's schema has
\* no 'active_agent' channel, whatever route_to and default_active_agent are (the
\* check comes before the default-agent check), and installs no conditional edge.
C5_MissingChannelRaisesFirst ==
    (/\ outcome # None
     /\ Get(outcome).call = "add_active_agent_router"
     /\ "active_agent" \notin Get(outcome).state_schema.own \cup Get(outcome).state_schema.inherited) =>
        /\ Get(outcome).raised = "ValueError"
        /\ Get(outcome).where = "builder lacks active_agent"
        /\ Get(builder).branches = <<>>

\* the router was called on a schema without the channel and with a default that
\* is not in the route list either
C5_Witness ==
    /\ outcome # None
    /\ Get(outcome).call = "add_active_agent_router"
    /\ "active_agent" \notin Get(outcome).state_schema.own \cup Get(outcome).state_schema.inherited
    /\ Get(outcome).route_to # <<>>
    /\ Get(outcome).default_active_agent \notin Range(Get(outcome).route_to)
    /\ Get(outcome).raised = "ValueError"

\* C6: create_swarm raises the missing-field ValueError if and only if the state
\* schema has no 'active_agent' field: a schema without the field is rejected
\* before any builder is created, and every schema with the field, declared or
\* inherited, passes this check.
C6_MissingFieldErrorIffNoField ==
    (outcome # None /\ Get(outcome).call = "create_swarm") =>
        LET schema == Get(outcome).state_schema
            rejected == /\ Get(outcome).raised = "ValueError"
                        /\ Get(outcome).where = "state_schema lacks active_agent"
        IN  /\ rejected <=> "active_agent" \notin schema.own \cup schema.inherited
            /\ rejected => builder = None

\* C7: from a state with no active_agent the router returns default_active_agent;
\* after any sequence of handoffs applied to the shared state it returns the
\* target of the most recent handoff.
C7_RouterFollowsLastHandoff ==
    SwarmBuilt =>
        Dispatched = IF call = None THEN Get(outcome).default_active_agent
                     ELSE Get(call).tool.agent_name

\* two handoffs, the second to another agent than the first, and not back to the
\* default
C7_Witness ==
    /\ SwarmBuilt
    /\ handoffs = 2
    /\ Get(call).state.active_agent # Get(call).tool.agent_name
    /\ Get(call).tool.agent_name # Get(outcome).default_active_agent
    /\ Dispatched = Get(call).tool.agent_name

\* the agent names the handoff tools held by the swarm's agents transfer to
HeldDestinations ==
    UNION {{tool.agent_name : tool \in HeldHandoffTools(agents[i])} : i \in 1..Len(agents)}

\* C8 (as amended): in a swarm built by create_swarm, in every state reached from
\* a state with no active_agent by handoffs of the swarm's agents, the name the
\* router dispatches to is in route_to or is the agent name of a handoff tool one
\* of the agents holds; it is in route_to whenever all those agent names are.
C8_DispatchedIsRoutedOrHeldDestination ==
    SwarmBuilt =>
        LET route_to == Range(Get(builder).branches[1].path_map)
        IN  /\ Dispatched \in route_to \cup HeldDestinations
            /\ HeldDestinations \subseteq route_to => Dispatched \in route_to

\* two handoffs among agents whose tools all name agents of the swarm
C8_Witness ==
    /\ SwarmBuilt
    /\ handoffs = 2
    /\ HeldDestinations # {}
    /\ HeldDestinations \subseteq Range(Get(builder).branches[1].path_map)
    /\ Dispatched # Get(outcome).default_active_agent

\* C8 (as stated): the name the router dispatches to is always in route_to.
C8_DispatchedIsRegistered ==
    SwarmBuilt => Dispatched \in Range(Get(builder).branches[1].path_map)

\* C10: when create_swarm succeeds the builder has exactly one node per agent,
\* named by the agent's name, the router's route list is the list of agent names
\* in the given order, and each node's destinations are what
\* get_handoff_destinations returns for its agent; a validation failure leaves no
\* node registered.
C10_SwarmHasOneNodePerAgent ==
    (outcome # None /\ Get(outcome).call = "create_swarm") =>
        /\ Get(outcome).raised = "" =>
            LET nodes == Get(builder).nodes
            IN  /\ Len(nodes) = Len(agents)
                /\ \A i \in 1..Len(agents) :
                      /\ nodes[i].name = agents[i].name
                      /\ nodes[i].destinations = get_handoff_destinations(agents[i], "tools")
                /\ \A i, j \in 1..Len(nodes) : nodes[i].name = nodes[j].name => i = j
                /\ Len(Get(builder).branches) = 1
                /\ Get(builder).branches[1].path_map = AgentNames(agents)
        /\ Get(outcome).where \in ValidationFailures =>
            builder = None \/ Get(builder).nodes = <<>>

\* a swarm of two agents, each with a handoff tool
C10_Witness ==
    /\ SwarmBuilt
    /\ Len(agents) = 2
    /\ Len(Get(builder).nodes) = 2
    /\ \A i \in 1..2 : Get(builder).nodes[i].destinations # <<>>
    /\ Get(builder).nodes[1].destinations # Get(builder).nodes[2].destinations

====
